---------------------------- MODULE Spec2Model ----------------------------
(***************************************************************************)
(* A model of the SPI TFT driver of tft_spi.py (class TFTBase and its two  *)
(* controller variants ILI9341 and ST7796S).                               *)
(*                                                                         *)
(* The state is the display handle (its fields and the levels of its       *)
(* control lines) together with a trace of what the most recent public     *)
(* call did, in program order: every pin write, every sleep, every         *)
(* spi.write, and a marker for every call of pixel, fill_rect and          *)
(* _set_window.  The level of a line at any point of the trace is the last *)
(* level written to it.  A public method is one action that runs the whole *)
(* method; Return hands control back to the caller, who then makes the     *)
(* next call.  color565, the module's one function, is a call that         *)
(* involves no handle and returns a value.  connect_wifi of wifi.py, which *)
(* blocks while it polls the WLAN interface, is modelled in steps further  *)
(* down.                                                                   *)
(*                                                                         *)
(* Python semantics kept: x >> 8 is floor division by 256, x & 0xFF is the *)
(* non-negative remainder, bytes([...]) raises ValueError for an element   *)
(* outside 0..255, indexing past the end of a buffer raises IndexError,    *)
(* and an exception ends the method where it is raised.                    *)
(*                                                                         *)
(* ILI9341 and ST7796S construct TFTBase with 240x320 and 320x480; the     *)
(* driver uses the dimensions only in comparisons and subtractions, and    *)
(* the model constructs the handle with the small dimensions named below.  *)
(***************************************************************************)
EXTENDS Integers, Sequences, FiniteSets, TLC

VARIABLES
    variant,     \* which subclass the handle is: "ILI9341" or "ST7796S"
    _w,          \* self._w: physical width
    _h,          \* self._h: physical height
    _rotation,   \* self._rotation
    _bgr,        \* self._bgr
    _invert,     \* self._invert
    _font,       \* self._font: name of the selected font
    cs,          \* level of the chip-select line
    dc,          \* level of the command/data line
    rst,         \* level of the reset line, or None
    bl,          \* level of the backlight line, or None
    call,        \* the public call that ran last (NoCall when idle)
    log,         \* the trace of that call
    err,         \* the exception that call raised, or "none"
    ret,         \* the value that call returned, None if it returns nothing
    wifi,        \* connect_wifi: where it is, or how it ended, and its arguments
    wlan,        \* the calls connect_wifi made on the WLAN object, with results
    ticks,       \* time.ticks_ms() as connect_wifi last saw the clock
    deadline,    \* connect_wifi's deadline, a ticks value
    elapsed      \* milliseconds gone by since the deadline was computed

wifi_vars == <<wifi, wlan, ticks, deadline, elapsed>>

vars == <<variant, _w, _h, _rotation, _bgr, _invert, _font,
          cs, dc, rst, bl, call, log, err, ret, wifi, wlan, ticks, deadline, elapsed>>

----------------------------------------------------------------------------
(* Bounds of the model *)

\* largest radius of the specification of circles and discs
DiscR == 5

\* physical size of the panel of the general specification
PanelW == 3
PanelH == 2
\* physical size of the panel of the fill_rect specification: more than
\* one 64-pixel chunk
BigW == 9
BigH == 8
\* how far outside the panel the position arguments reach
Margin == 1
\* largest circle radius
MaxR == 2

----------------------------------------------------------------------------
(* Program constants *)

_SWRESET == 1
_SLPOUT == 17
_DISPON == 41
_CASET == 42
_RASET == 43
_RAMWR == 44
_MADCTL == 54
_COLMOD == 58
_INVON == 33
_INVOFF == 32
_MADCTL_MY == 128
_MADCTL_MX == 64
_MADCTL_MV == 32
_MADCTL_BGR == 8
_COLMOD_16BIT == 85
\* ST7796S command set control register and its two unlock values
CSCON == 240
CSCON_C3 == 195
CSCON_96 == 150
\* pixels held by the reusable fill buffer self._chunk
ChunkPixels == 64
\* Python's None (no reset line, no backlight line, no background, no key)
None == -1

Max(a, b) == IF a >= b THEN a ELSE b
Min(a, b) == IF a <= b THEN a ELSE b
Abs(a) == IF a < 0 THEN -a ELSE a

\* v >> 8 and v & 0xFF of Python integers
Hi(v) == v \div 256
Lo(v) == v % 256

----------------------------------------------------------------------------
(* color565(r, g, b), the module-level packing function.  For channels in  *)
(* 0..255 the three masked and shifted fields occupy bits 15-11, 10-5 and  *)
(* 4-0, so that their bitwise OR is their sum.                             *)

\* faulty variant: green is masked like red and blue, to five bits
color565_GreenFiveBits(r, g, b) ==
    (((r \div 8) % 32) * 8) * 256 + (((g \div 8) % 32) * 8) * 8 + (b \div 8)

\* ((r & 0xF8) << 8) | ((g & 0xFC) << 3) | (b >> 3)
color565(r, g, b) ==
    (((r \div 8) % 32) * 8) * 256 + (((g \div 4) % 64) * 4) * 8 + (b \div 8)

----------------------------------------------------------------------------
(* What a method does is the sequence of its effects, in program order.    *)
(* An effect is a pin write (k = "cs", "dc", "rst", "bl"; v the level), a  *)
(* sleep (v the milliseconds), an spi.write (k = "command" for the opcode  *)
(* byte written by _cmd, "payload" for a buffer written by _data or        *)
(* streamed by fill_rect; data the bytes), a marker for a call of pixel,   *)
(* fill_rect or _set_window (data the arguments), or a raised exception    *)
(* (k = "raise", data the exception's name), after which nothing runs.     *)

NoCall == [op |-> "none", args |-> <<>>, cs0 |-> 0, dc0 |-> 0]

Ev(k, v, data) == [k |-> k, v |-> v, data |-> data]

\* raise an exception
Raise(e) == <<Ev("raise", 0, <<e>>)>>

\* a marker for a call of an internal method (no bus traffic of its own)
Mark(k, data) == <<Ev(k, 0, data)>>

\* time.sleep_ms(ms)
SleepMs(ms) == <<Ev("sleep", ms, <<>>)>>

\* self.cs(v), self.dc(v), self.rst(v), self.bl(v)
SetCS(v) == <<Ev("cs", v, <<>>)>>
SetDC(v) == <<Ev("dc", v, <<>>)>>
SetRST(v) == <<Ev("rst", v, <<>>)>>
SetBL(v) == <<Ev("bl", v, <<>>)>>

\* self.spi.write(buf)
SpiWrite(k, buf) == <<Ev(k, 0, buf)>>

\* bytes([...]) accepts only elements in 0..255
ValidBytes(s) == \A i \in 1..Len(s) : s[i] \in 0..255

\* the index of the first raised exception in t, 0 if there is none
FirstRaise(t) ==
    IF \E i \in 1..Len(t) : t[i].k = "raise"
    THEN CHOOSE i \in 1..Len(t) :
            /\ t[i].k = "raise"
            /\ \A j \in 1..(i - 1) : t[j].k # "raise"
    ELSE 0

\* the effects that happen: those before the first raised exception
Happens(t) == LET i == FirstRaise(t) IN IF i = 0 THEN t ELSE SubSeq(t, 1, i - 1)

Exception(t) == LET i == FirstRaise(t) IN IF i = 0 THEN "none" ELSE t[i].data[1]

\* the level a line is left at by the effects t, from level v0: the last
\* level written to it, v0 if none was
RECURSIVE LastWrite(_, _, _)
LastWrite(t, i, k) == IF t[i].k = k THEN t[i].v ELSE LastWrite(t, i - 1, k)

FinalLevel(t, k, v0) ==
    IF \E j \in 1..Len(t) : t[j].k = k THEN LastWrite(t, Len(t), k) ELSE v0

----------------------------------------------------------------------------
(* Low-level bus *)

_select == SetCS(0)

_deselect == SetCS(1)

_cmd(c) == SetDC(0) \o _select \o SpiWrite("command", <<Lo(c)>>) \o _deselect

_data(buf) == SetDC(1) \o _select \o SpiWrite("payload", buf) \o _deselect

_cmd_data(c, data) == _cmd(c) \o (IF data # <<>> THEN _data(data) ELSE <<>>)

reset ==
    IF rst = None THEN <<>>
    ELSE SetRST(1) \o SleepMs(10) \o SetRST(0) \o SleepMs(20) \o SetRST(1) \o SleepMs(120)

----------------------------------------------------------------------------
(* Addressing / rotation *)

\* faulty variant: the width is the physical width in every rotation
WidthAt_NoSwap(r) == _w

\* the width and height properties for a stored rotation r
WidthAt(r) == IF r % 2 = 0 THEN _w ELSE _h
HeightAt(r) == IF r % 2 = 0 THEN _h ELSE _w

width == WidthAt(_rotation)
height == HeightAt(_rotation)

\* faulty variant: the colour-order bit is never set
MadctlByte_NoBGR(r) ==
    CASE r = 0 -> _MADCTL_MX
      [] r = 1 -> _MADCTL_MV
      [] r = 2 -> _MADCTL_MY
      [] r = 3 -> _MADCTL_MX + _MADCTL_MY + _MADCTL_MV
      [] OTHER -> 0

MadctlByte(r) ==
    LET mad == CASE r = 0 -> _MADCTL_MX
                 [] r = 1 -> _MADCTL_MV
                 [] r = 2 -> _MADCTL_MY
                 [] r = 3 -> _MADCTL_MX + _MADCTL_MY + _MADCTL_MV
                 [] OTHER -> 0
    IN IF _bgr THEN mad + _MADCTL_BGR ELSE mad

\* _apply_madctl with self._rotation = r
_apply_madctl(r) == _cmd_data(_MADCTL, <<MadctlByte(r)>>)

\* self._xoff, self._yoff
_xoff == 0
_yoff == 0

\* faulty variant: the ranges are sent low byte first
_set_window_LowByteFirst(x0, y0, x1, y1) ==
    LET cas == <<Lo(x0), Hi(x0), Lo(x1), Hi(x1)>>
        ras == <<Lo(y0), Hi(y0), Lo(y1), Hi(y1)>>
    IN Mark("set_window", <<x0, y0, x1, y1>>)
       \o (IF ValidBytes(cas) THEN _cmd_data(_CASET, cas) ELSE Raise("ValueError"))
       \o (IF ValidBytes(ras) THEN _cmd_data(_RASET, ras) ELSE Raise("ValueError"))
       \o _cmd(_RAMWR)

_set_window(x0, y0, x1, y1) ==
    LET ax0 == x0 + _xoff
        ax1 == x1 + _xoff
        ay0 == y0 + _yoff
        ay1 == y1 + _yoff
        cas == <<Hi(ax0), Lo(ax0), Hi(ax1), Lo(ax1)>>
        ras == <<Hi(ay0), Lo(ay0), Hi(ay1), Lo(ay1)>>
    IN Mark("set_window", <<x0, y0, x1, y1>>)
       \o (IF ValidBytes(cas) THEN _cmd_data(_CASET, cas) ELSE Raise("ValueError"))
       \o (IF ValidBytes(ras) THEN _cmd_data(_RASET, ras) ELSE Raise("ValueError"))
       \o _cmd(_RAMWR)

----------------------------------------------------------------------------
(* Drawing primitives *)

\* bytes([color >> 8, color & 0xFF])
ColorBytes(color) == <<Hi(color), Lo(color)>>


\* faulty variant: the bounds test lets x = width and y = height through
pixel_OffByOne(x, y, color) ==
    Mark("pixel", <<x, y, color>>)
    \o (IF x < 0 \/ y < 0 \/ x > width \/ y > height THEN <<>>
        ELSE _set_window(x, y, x, y) \o _data(ColorBytes(color)))

pixel(x, y, color) ==
    Mark("pixel", <<x, y, color>>)
    \o (IF x < 0 \/ y < 0 \/ x >= width \/ y >= height THEN <<>>
        ELSE _set_window(x, y, x, y)
             \o (IF ValidBytes(ColorBytes(color)) THEN _data(ColorBytes(color))
                 ELSE Raise("ValueError")))

\* faulty variant: a negative x or y is moved to 0 without shrinking w or h
ClipRect_NoShrink(x, y, w, h) ==
    LET x1 == IF x < 0 THEN 0 ELSE x
        y1 == IF y < 0 THEN 0 ELSE y
        w2 == IF x1 + w > width THEN width - x1 ELSE w
        h2 == IF y1 + h > height THEN height - y1 ELSE h
    IN <<x1, y1, w2, h2>>

\* the clipped rectangle <<x, y, w, h>> of fill_rect lines 279-289
ClipRect(x, y, w, h) ==
    LET w1 == IF x < 0 THEN w + x ELSE w
        x1 == IF x < 0 THEN 0 ELSE x
        h1 == IF y < 0 THEN h + y ELSE h
        y1 == IF y < 0 THEN 0 ELSE y
        w2 == IF x1 + w1 > width THEN width - x1 ELSE w1
        h2 == IF y1 + h1 > height THEN height - y1 ELSE h1
    IN <<x1, y1, w2, h2>>

\* chunk[:2 * n] after the buffer was filled with the colour
ChunkSlice(color, n) ==
    [i \in 1..(2 * n) |-> IF i % 2 = 1 THEN Lo(Hi(color)) ELSE Lo(color)]

\* faulty variant: the last pass writes a whole chunk too
ChunkLen_AlwaysFull(total) == ChunkPixels

\* pixels written by one pass of the streaming loop
ChunkLen(total) == IF total >= ChunkPixels THEN ChunkPixels ELSE total

RECURSIVE StreamChunks(_, _)
StreamChunks(color, total) ==
    IF total > 0
    THEN SpiWrite("payload", ChunkSlice(color, ChunkLen(total)))
         \o StreamChunks(color, total - ChunkLen(total))
    ELSE <<>>


\* faulty variant: the command/data line is not raised before the colour is streamed
fill_rect_NoDC(x, y, w, h, color) ==
    Mark("fill_rect", <<x, y, w, h, color>>)
    \o (IF w <= 0 \/ h <= 0 THEN <<>>
        ELSE IF x + w - 1 < 0 \/ y + h - 1 < 0 \/ x >= width \/ y >= height THEN <<>>
        ELSE LET c == ClipRect(x, y, w, h)
             IN _set_window(c[1], c[2], c[1] + c[3] - 1, c[2] + c[4] - 1)
                \o _select \o StreamChunks(color, c[3] * c[4]) \o _deselect)

fill_rect(x, y, w, h, color) ==
    Mark("fill_rect", <<x, y, w, h, color>>)
    \o (IF w <= 0 \/ h <= 0 THEN <<>>
        ELSE IF x + w - 1 < 0 \/ y + h - 1 < 0 \/ x >= width \/ y >= height THEN <<>>
        ELSE LET c == ClipRect(x, y, w, h)
             IN _set_window(c[1], c[2], c[1] + c[3] - 1, c[2] + c[4] - 1)
                \o SetDC(1) \o _select \o StreamChunks(color, c[3] * c[4]) \o _deselect)

fill(color) == fill_rect(0, 0, width, height, color)

erase == fill(0)

hline(x, y, w, color) == fill_rect(x, y, w, 1, color)

vline(x, y, h, color) == fill_rect(x, y, 1, h, color)

rect(x, y, w, h, color) ==
    IF w <= 0 \/ h <= 0 THEN <<>>
    ELSE hline(x, y, w, color) \o hline(x, y + h - 1, w, color)
         \o vline(x, y, h, color) \o vline(x + w - 1, y, h, color)

RECURSIVE LineLoop(_, _, _, _, _, _, _, _, _, _)
LineLoop(x0, y0, x1, y1, dx, sx, dy, sy, e, color) ==
    pixel(x0, y0, color)
    \o (IF x0 = x1 /\ y0 = y1 THEN <<>>
        ELSE LET e2 == 2 * e
                 stepx == e2 >= dy
                 stepy == e2 <= dx
                 ea == IF stepx THEN e + dy ELSE e
                 xa == IF stepx THEN x0 + sx ELSE x0
                 eb == IF stepy THEN ea + dx ELSE ea
                 ya == IF stepy THEN y0 + sy ELSE y0
             IN LineLoop(xa, ya, x1, y1, dx, sx, dy, sy, eb, color))


\* faulty variant: the end point is plotted once more after the loop
line_EndTwice(x0, y0, x1, y1, color) ==
    LineLoop(x0, y0, x1, y1, Abs(x1 - x0), IF x0 < x1 THEN 1 ELSE -1,
             -Abs(y1 - y0), IF y0 < y1 THEN 1 ELSE -1,
             Abs(x1 - x0) - Abs(y1 - y0), color)
    \o pixel(x1, y1, color)

line(x0, y0, x1, y1, color) ==
    LET dx == Abs(x1 - x0)
        sx == IF x0 < x1 THEN 1 ELSE -1
        dy == -Abs(y1 - y0)
        sy == IF y0 < y1 THEN 1 ELSE -1
    IN LineLoop(x0, y0, x1, y1, dx, sx, dy, sy, dx + dy, color)

\* the eight pixel calls of one pass of the circle loop, in source order
CircleOctants(x0, y0, x, y, color) ==
    pixel(x0 + x, y0 + y, color) \o pixel(x0 + y, y0 + x, color)
    \o pixel(x0 - y, y0 + x, color) \o pixel(x0 - x, y0 + y, color)
    \o pixel(x0 - x, y0 - y, color) \o pixel(x0 - y, y0 - x, color)
    \o pixel(x0 + y, y0 - x, color) \o pixel(x0 + x, y0 - y, color)

RECURSIVE CircleLoop(_, _, _, _, _, _)
CircleLoop(x0, y0, x, y, e, color) ==
    IF x >= y
    THEN CircleOctants(x0, y0, x, y, color)
         \o (IF e < 0 THEN CircleLoop(x0, y0, x, y + 1, e + 2 * (y + 1) + 1, color)
             ELSE CircleLoop(x0, y0, x - 1, y + 1,
                             e + 2 * ((y + 1) - (x - 1)) + 1, color))
    ELSE <<>>


\* faulty variant: the loop starts one pixel too far out
circle_RadiusPlusOne(x0, y0, r, color) == CircleLoop(x0, y0, r + 1, 0, 0 - r, color)

circle(x0, y0, r, color) == CircleLoop(x0, y0, r, 0, 1 - r, color)

\* faulty variant: only the two long spans of a pass, without the caps
CircleSpans_NoCaps(x0, y0, x, y, color) ==
    hline(x0 - x, y0 + y, 2 * x + 1, color) \o hline(x0 - x, y0 - y, 2 * x + 1, color)

\* the four hline calls of one pass of the fill_circle loop, in source order
CircleSpans(x0, y0, x, y, color) ==
    hline(x0 - x, y0 + y, 2 * x + 1, color) \o hline(x0 - x, y0 - y, 2 * x + 1, color)
    \o hline(x0 - y, y0 + x, 2 * y + 1, color) \o hline(x0 - y, y0 - x, 2 * y + 1, color)

RECURSIVE FillCircleLoop(_, _, _, _, _, _)
FillCircleLoop(x0, y0, x, y, e, color) ==
    IF x >= y
    THEN CircleSpans(x0, y0, x, y, color)
         \o (IF e < 0 THEN FillCircleLoop(x0, y0, x, y + 1, e + 2 * (y + 1) + 1, color)
             ELSE FillCircleLoop(x0, y0, x - 1, y + 1,
                                 e + 2 * ((y + 1) - (x - 1)) + 1, color))
    ELSE <<>>

fill_circle(x0, y0, r, color) == FillCircleLoop(x0, y0, r, 0, 1 - r, color)

----------------------------------------------------------------------------
(* Fonts.  The font modules (fonts.tt7, ...) are tables read through       *)
(* height() and get_ch(ch); two small tables stand for them: "small" is    *)
(* one byte per column, "tall" is two bytes per column and the data of its *)
(* glyph "A" stop before the last byte, "cut" is as tall as "tall" with    *)
(* no data at all for "A" and only the first byte for any other glyph.     *)

Fonts == {"small", "tall", "cut"}

\* font.height()
FontHeight(f) == IF f = "small" THEN 2 ELSE 9

\* font.get_ch(ch)[0]: the packed glyph, column by column, bit 0 the top row
GlyphData(f, ch) ==
    IF f = "small"
    THEN (IF ch = "A" THEN <<1, 3>> ELSE <<2>>)
    ELSE IF f = "tall"
    THEN (IF ch = "A" THEN <<129, 1, 255>> ELSE <<0, 1>>)
    ELSE (IF ch = "A" THEN <<>> ELSE <<255>>)

\* font.get_ch(ch)[1]: the declared width of the glyph
GlyphWidth(f, ch) == IF ch = "A" THEN 2 ELSE 1

----------------------------------------------------------------------------
(* Text rendering *)

\* 1 << n
Pow2(n) == IF n = 0 THEN 1 ELSE IF n = 1 THEN 2 ELSE IF n = 2 THEN 4
           ELSE IF n = 3 THEN 8 ELSE IF n = 4 THEN 16 ELSE IF n = 5 THEN 32
           ELSE IF n = 6 THEN 64 ELSE 128

\* faulty variant: bit 7 of a glyph byte is taken as the top row
GlyphOn_TopBitFirst(glyph, bytes_per_col, col, row) ==
    LET glyph_idx == col * bytes_per_col + (row \div 8)
    IN /\ glyph_idx < Len(glyph)
       /\ (glyph[glyph_idx + 1] \div Pow2(7 - (row % 8))) % 2 = 1

\* the glyph bit test of _draw_char: an index past the data is bit-off
GlyphOn(glyph, bytes_per_col, col, row) ==
    LET glyph_idx == col * bytes_per_col + (row \div 8)
    IN /\ glyph_idx < Len(glyph)
       /\ (glyph[glyph_idx + 1] \div Pow2(row % 8)) % 2 = 1

\* faulty variant: the glyph is laid into the tile column by column
TileBuf_Transposed(glyph, char_width, font_height, color, bg) ==
    LET w == char_width + 1
        h == font_height + 1
        bpc == (font_height + 7) \div 8
        Fg(i) == \E col \in 0..(char_width - 1), row \in 0..(font_height - 1) :
                    /\ GlyphOn(glyph, bpc, col, row)
                    /\ (i - 1) \div 2 = col * h + row
    IN [i \in 1..(w * h * 2) |->
           IF Fg(i) THEN (IF i % 2 = 1 THEN Lo(Hi(color)) ELSE Lo(color))
           ELSE (IF i % 2 = 1 THEN Lo(Hi(bg)) ELSE Lo(bg))]

\* faulty variant: a tile of the glyph's own size, without the spacing column and row
TileBuf_NoSpacing(glyph, char_width, font_height, color, bg) ==
    [i \in 1..(char_width * font_height * 2) |->
        IF i % 2 = 1 THEN Lo(Hi(bg)) ELSE Lo(bg)]

\* the tile buffer of the opaque path: background everywhere, then the
\* foreground colour at p = (row * w + col) * 2 for every glyph bit
TileBuf(glyph, char_width, font_height, color, bg) ==
    LET w == char_width + 1
        h == font_height + 1
        bpc == (font_height + 7) \div 8
        Fg(i) == \E col \in 0..(char_width - 1), row \in 0..(font_height - 1) :
                    /\ GlyphOn(glyph, bpc, col, row)
                    /\ (i - 1) \div 2 = row * w + col
    IN [i \in 1..(w * h * 2) |->
           IF Fg(i) THEN (IF i % 2 = 1 THEN Lo(Hi(color)) ELSE Lo(color))
           ELSE (IF i % 2 = 1 THEN Lo(Hi(bg)) ELSE Lo(bg))]

\* the transparent path: for col, for row (k = col * font_height + row), a
\* pixel call for every glyph bit
RECURSIVE GlyphPixels(_, _, _, _, _, _, _)
GlyphPixels(glyph, char_width, font_height, x, y, color, k) ==
    IF k >= char_width * font_height THEN <<>>
    ELSE LET col == k \div font_height
             row == k % font_height
         IN (IF GlyphOn(glyph, (font_height + 7) \div 8, col, row)
             THEN pixel(x + col, y + row, color)
             ELSE <<>>)
            \o GlyphPixels(glyph, char_width, font_height, x, y, color, k + 1)

_draw_char(ch, x, y, color, bg) ==
    LET glyph == GlyphData(_font, ch)
        char_width == GlyphWidth(_font, ch)
        font_height == FontHeight(_font)
    IN IF bg # None
       THEN LET w == char_width + 1
                h == font_height + 1
            IN _set_window(x, y, x + w - 1, y + h - 1)
               \o _data(TileBuf(glyph, char_width, font_height, color, bg))
       ELSE GlyphPixels(glyph, char_width, font_height, x, y, color, 0)

\* faulty variant: a newline moves down but keeps the horizontal cursor
RECURSIVE TextLoop_NewlineKeepsX(_, _, _, _, _, _, _, _)
TextLoop_NewlineKeepsX(s, i, x, cx, y, color, bg, spacing) ==
    IF i > Len(s) THEN <<>>
    ELSE IF s[i] = "\n"
    THEN TextLoop_NewlineKeepsX(s, i + 1, x, cx, y + FontHeight(_font) + 2, color, bg, spacing)
    ELSE _draw_char(s[i], cx, y, color, bg)
         \o TextLoop_NewlineKeepsX(s, i + 1, x, cx + GlyphWidth(_font, s[i]) + spacing, y,
                                   color, bg, spacing)

RECURSIVE TextLoop(_, _, _, _, _, _, _, _)
TextLoop(s, i, x, cx, y, color, bg, spacing) ==
    IF i > Len(s) THEN <<>>
    ELSE IF s[i] = "\n"
    THEN TextLoop(s, i + 1, x, x, y + FontHeight(_font) + 2, color, bg, spacing)
    ELSE _draw_char(s[i], cx, y, color, bg)
         \o TextLoop(s, i + 1, x, cx + GlyphWidth(_font, s[i]) + spacing, y,
                     color, bg, spacing)

text(s, x, y, color, bg, spacing) == TextLoop(s, 1, x, x, y, color, bg, spacing)

----------------------------------------------------------------------------
(* Sprites *)

\* faulty variant: the source pixels are placed column by column
RECURSIVE BlitKeyLoop_ColumnMajor(_, _, _, _, _, _, _)
BlitKeyLoop_ColumnMajor(x, y, w, h, data, key, k) ==
    IF k >= w * h THEN <<>>
    ELSE IF 2 * k + 2 > Len(data) THEN Raise("IndexError")
    ELSE LET c == data[2 * k + 1] * 256 + data[2 * k + 2]
         IN (IF c # key THEN pixel(x + (k \div h), y + (k % h), c) ELSE <<>>)
            \o BlitKeyLoop_ColumnMajor(x, y, w, h, data, key, k + 1)

\* the colour-key path: source pixel k of w * h, row-major; data[i] past the
\* end of the buffer raises IndexError
RECURSIVE BlitKeyLoop(_, _, _, _, _, _, _)
BlitKeyLoop(x, y, w, h, data, key, k) ==
    IF k >= w * h THEN <<>>
    ELSE IF 2 * k + 2 > Len(data) THEN Raise("IndexError")
    ELSE LET c == data[2 * k + 1] * 256 + data[2 * k + 2]
         IN (IF c # key THEN pixel(x + (k % w), y + (k \div w), c) ELSE <<>>)
            \o BlitKeyLoop(x, y, w, h, data, key, k + 1)

blit_rgb565(x, y, w, h, data, key) ==
    IF w <= 0 \/ h <= 0 THEN <<>>
    ELSE IF key = None
    THEN _set_window(x, y, x + w - 1, y + h - 1) \o _data(data)
    ELSE BlitKeyLoop(x, y, w, h, data, key, 0)

----------------------------------------------------------------------------
(* Controller initialisation *)


\* faulty variant: the backlight is switched on before the display is
InitTail_BacklightFirst ==
    (IF _invert THEN _cmd(_INVON) ELSE _cmd(_INVOFF))
    \o (IF bl # None THEN SetBL(1) ELSE <<>>)
    \o _cmd(_DISPON) \o SleepMs(50)

\* the end of both init sequences: inversion, display on, backlight
InitTail ==
    (IF _invert THEN _cmd(_INVON) ELSE _cmd(_INVOFF))
    \o _cmd(_DISPON) \o SleepMs(50)
    \o (IF bl # None THEN SetBL(1) ELSE <<>>)

common_init ==
    reset \o _cmd(_SWRESET) \o SleepMs(120)
    \o _cmd(_SLPOUT) \o SleepMs(120)
    \o _cmd_data(_COLMOD, <<_COLMOD_16BIT>>) \o SleepMs(10)
    \o _apply_madctl(_rotation)
    \o InitTail

\* ILI9341.init
init_ILI9341 == common_init

\* ST7796S.init
init_ST7796S ==
    reset \o _cmd(_SWRESET) \o SleepMs(120)
    \o _cmd_data(CSCON, <<CSCON_C3>>) \o _cmd_data(CSCON, <<CSCON_96>>)
    \o _cmd(_SLPOUT) \o SleepMs(120)
    \o _cmd_data(_COLMOD, <<_COLMOD_16BIT>>) \o SleepMs(10)
    \o _apply_madctl(_rotation)
    \o InitTail

----------------------------------------------------------------------------
(* connect_wifi of wifi.py.  The function blocks while it polls the WLAN   *)
(* interface, so it is modelled in steps: the call up to wlan.connect and  *)
(* the deadline, then one step for each evaluation of the loop condition,  *)
(* which runs either one iteration of the loop or the timeout tail.  What  *)
(* the interface reports (isconnected(), status(), whether disconnect()   *)
(* or rp2.country() raises) and how long a sleep really takes are the      *)
(* environment's choice.  The clock is MicroPython's wrapping tick counter.*)

\* network.STAT_*
STAT_IDLE == 0
STAT_CONNECTING == 1
STAT_WRONG_PASSWORD == 0 - 3
STAT_NO_AP_FOUND == 0 - 2
STAT_CONNECT_FAIL == 0 - 1
STAT_GOT_IP == 3

\* time.ticks_ms() wraps at this period
TicksPeriod == 1073741824

\* time.ticks_add(t, d)
ticks_add(t, d) == (t + d) % TicksPeriod

\* faulty variant: the difference is taken without regard to the wrap
ticks_diff_NoWrap(a, b) == a - b

\* time.ticks_diff(a, b): the signed difference of two ticks values
ticks_diff(a, b) ==
    ((a - b + TicksPeriod \div 2) % TicksPeriod) - TicksPeriod \div 2

\* country=None
NoCountry == "None"

\* a call made on the WLAN object (or rp2.country), v its result where it
\* has one, at the milliseconds gone by since the deadline was computed
WlanCall(k, v, at) == [k |-> k, v |-> v, at |-> at]

\* connect_wifi is not running
NotConnecting ==
    /\ wifi = [pc |-> "idle", timeout_ms |-> 0, poll_ms |-> 0, verbose |-> FALSE,
               country |-> NoCountry, polls |-> 0]
    /\ wlan = <<>>
    /\ ticks = 0
    /\ deadline = 0
    /\ elapsed = 0

\* connect_wifi(ssid, password, timeout_s, country, poll_ms, verbose) up to
\* the loop, with timeout_ms = int(timeout_s * 1000): it returns at once if
\* the interface is already connected, else it starts connecting and
\* computes the deadline from the clock
CallConnectWifi(Ts, Ps, Vs, Cs, Clock) ==
    /\ call = NoCall
    /\ wifi.pc = "idle"
    /\ \E timeout_ms \in Ts, poll_ms \in Ps, verbose \in Vs, country \in Cs,
          country_ok \in BOOLEAN, up \in BOOLEAN, now \in Clock :
          LET args == [timeout_ms |-> timeout_ms, poll_ms |-> poll_ms,
                       verbose |-> verbose, country |-> country, polls |-> 0]
              pre == <<WlanCall("active", TRUE, 0)>>
                     \o (IF country # NoCountry
                         THEN <<WlanCall("rp2.country", country_ok, 0)>> ELSE <<>>)
                     \o <<WlanCall("isconnected", up, 0)>>
          IN IF up
             THEN /\ wifi' = [pc |-> "returned"] @@ args
                  /\ wlan' = pre
                  /\ UNCHANGED <<ticks, deadline, elapsed>>
             ELSE /\ wifi' = [pc |-> "polling"] @@ args
                  /\ wlan' = pre \o <<WlanCall("connect", TRUE, 0)>>
                  /\ ticks' = now
                  /\ deadline' = ticks_add(now, timeout_ms)
                  /\ elapsed' = 0
    /\ UNCHANGED <<variant, _w, _h, _rotation, _bgr, _invert, _font, cs, dc, rst, bl,
                   call, log, err, ret>>

\* one evaluation of `while time.ticks_diff(deadline, time.ticks_ms()) > 0`
\* and what follows it: an iteration of the loop (poll; return, or
\* disconnect and raise OSError, or sleep at least poll_ms), or the timeout
\* tail (with verbose two more reads of status() for the message;
\* disconnect; raise TimeoutError).  An exception of disconnect() is
\* swallowed.  Late is how much longer than poll_ms a sleep may take.
WifiStep(Sts, Late, MaxP) ==
    /\ wifi.pc = "polling"
    /\ IF ticks_diff(deadline, ticks) > 0
       THEN \E status \in Sts, up \in BOOLEAN, disc_ok \in BOOLEAN, d \in Late :
               LET polled == <<WlanCall("status", status, elapsed)>>
                             \o (IF status # STAT_GOT_IP
                                 THEN <<WlanCall("isconnected", up, elapsed)>>
                                 ELSE <<>>)
               IN IF status = STAT_GOT_IP \/ up
                  THEN /\ wifi' = [wifi EXCEPT !.pc = "returned", !.polls = @ + 1]
                       /\ wlan' = wlan \o polled
                       /\ UNCHANGED <<ticks, elapsed>>
                  ELSE IF status < 0
                  THEN /\ wifi' = [wifi EXCEPT !.pc = "OSError", !.polls = @ + 1]
                       /\ wlan' = wlan \o polled
                                  \o <<WlanCall("disconnect", disc_ok, elapsed)>>
                       /\ UNCHANGED <<ticks, elapsed>>
                  ELSE /\ wifi.polls < MaxP
                       /\ wifi' = [wifi EXCEPT !.polls = @ + 1]
                       /\ wlan' = wlan \o polled
                       /\ ticks' = ticks_add(ticks, wifi.poll_ms + d)
                       /\ elapsed' = elapsed + wifi.poll_ms + d
       ELSE \E s1 \in Sts, s2 \in Sts, disc_ok \in BOOLEAN :
               /\ wifi' = [wifi EXCEPT !.pc = "TimeoutError"]
               /\ wlan' = wlan
                          \o (IF wifi.verbose
                              THEN <<WlanCall("status for the message", s1, elapsed),
                                     WlanCall("status for the message", s2, elapsed)>>
                              ELSE <<>>)
                          \o <<WlanCall("disconnect", disc_ok, elapsed)>>
               /\ UNCHANGED <<ticks, elapsed>>
    /\ UNCHANGED <<variant, _w, _h, _rotation, _bgr, _invert, _font, cs, dc, rst, bl,
                   call, log, err, ret, deadline>>

\* the caller has the WLAN object or the exception; it may call again
WifiReturn ==
    /\ wifi.pc \in {"returned", "OSError", "TimeoutError"}
    /\ wifi' = [pc |-> "idle", timeout_ms |-> 0, poll_ms |-> 0, verbose |-> FALSE,
                country |-> NoCountry, polls |-> 0]
    /\ wlan' = <<>>
    /\ ticks' = 0
    /\ deadline' = 0
    /\ elapsed' = 0
    /\ UNCHANGED <<variant, _w, _h, _rotation, _bgr, _invert, _font, cs, dc, rst, bl,
                   call, log, err, ret>>

----------------------------------------------------------------------------
(* Construction *)

Variants == {"ILI9341", "ST7796S"}

\* TFTBase.__init__: a line given as a Pin object keeps whatever level it
\* has (the scripts pass Pin(n, Pin.OUT)); a line given as a number is
\* created high (cs, rst, bl) or low (dc); rst and bl may be None
Construct(W, H, Vs, CSs, DCs, Rsts, Bls, Bgrs, Inverts) ==
    /\ variant \in Vs
    /\ _w = W
    /\ _h = H
    /\ _rotation \in 0..3
    /\ _bgr \in Bgrs
    /\ _invert \in Inverts
    /\ _font = "small"
    /\ cs \in CSs
    /\ dc \in DCs
    /\ rst \in Rsts
    /\ bl \in Bls
    /\ call = NoCall
    /\ log = <<>>
    /\ err = "none"
    /\ ret = None
    /\ NotConnecting

----------------------------------------------------------------------------
(* Public calls.  Each runs the whole method and stores its trace.         *)

\* the call op(args) ran with the effects t: the trace is what happened,
\* and each line is left at the last level written to it
Ran(op, args, t) ==
    /\ call = NoCall
    /\ call' = [op |-> op, args |-> args, cs0 |-> cs, dc0 |-> dc]
    /\ \E r \in {Happens(t)} :
          /\ log' = r
          /\ cs' = FinalLevel(r, "cs", cs)
          /\ dc' = FinalLevel(r, "dc", dc)
          /\ rst' = FinalLevel(r, "rst", rst)
          /\ bl' = FinalLevel(r, "bl", bl)
    /\ err' = Exception(t)
    /\ ret' = None
    /\ UNCHANGED <<variant, _w, _h, _bgr, _invert>>
    /\ UNCHANGED wifi_vars

\* the caller takes control back; the handle keeps its fields and levels
Return ==
    /\ call # NoCall
    /\ call' = NoCall
    /\ log' = <<>>
    /\ err' = "none"
    /\ ret' = None
    /\ UNCHANGED <<variant, _w, _h, _rotation, _bgr, _invert, _font, cs, dc, rst, bl>>
    /\ UNCHANGED wifi_vars

CallInit ==
    /\ Ran("init", <<>>, IF variant = "ILI9341" THEN init_ILI9341 ELSE init_ST7796S)
    /\ UNCHANGED <<_rotation, _font>>

CallRotation(Rs) ==
    \E r \in Rs :
        /\ _rotation' = r % 4
        /\ Ran("rotation", <<r>>, _apply_madctl(r % 4))
        /\ UNCHANGED _font

CallSetFont ==
    \E f \in Fonts :
        /\ _font' = f
        /\ Ran("set_font", <<f>>, <<>>)
        /\ UNCHANGED _rotation

CallPixel(P, C) ==
    \E x \in P, y \in P, c \in C :
        /\ Ran("pixel", <<x, y, c>>, pixel(x, y, c))
        /\ UNCHANGED <<_rotation, _font>>

CallFillRect(P, D, C) ==
    \E x \in P, y \in P, w \in D, h \in D, c \in C :
        /\ Ran("fill_rect", <<x, y, w, h, c>>, fill_rect(x, y, w, h, c))
        /\ UNCHANGED <<_rotation, _font>>

CallFill(C) ==
    \E c \in C :
        /\ Ran("fill", <<c>>, fill(c))
        /\ UNCHANGED <<_rotation, _font>>

CallErase ==
    /\ Ran("erase", <<>>, erase)
    /\ UNCHANGED <<_rotation, _font>>

CallHline(P, D, C) ==
    \E x \in P, y \in P, w \in D, c \in C :
        /\ Ran("hline", <<x, y, w, c>>, hline(x, y, w, c))
        /\ UNCHANGED <<_rotation, _font>>

CallVline(P, D, C) ==
    \E x \in P, y \in P, h \in D, c \in C :
        /\ Ran("vline", <<x, y, h, c>>, vline(x, y, h, c))
        /\ UNCHANGED <<_rotation, _font>>

CallRect(P, D, C) ==
    \E x \in P, y \in P, w \in D, h \in D, c \in C :
        /\ Ran("rect", <<x, y, w, h, c>>, rect(x, y, w, h, c))
        /\ UNCHANGED <<_rotation, _font>>

CallLine(P, C) ==
    \E x0 \in P, y0 \in P, x1 \in P, y1 \in P, c \in C :
        /\ Ran("line", <<x0, y0, x1, y1, c>>, line(x0, y0, x1, y1, c))
        /\ UNCHANGED <<_rotation, _font>>

CallCircle(P, R, C) ==
    \E x0 \in P, y0 \in P, r \in R, c \in C :
        /\ Ran("circle", <<x0, y0, r, c>>, circle(x0, y0, r, c))
        /\ UNCHANGED <<_rotation, _font>>

CallFillCircle(P, R, C) ==
    \E x0 \in P, y0 \in P, r \in R, c \in C :
        /\ Ran("fill_circle", <<x0, y0, r, c>>, fill_circle(x0, y0, r, c))
        /\ UNCHANGED <<_rotation, _font>>

CallText(S, P, C, B, Sp) ==
    \E s \in S, x \in P, y \in P, c \in C, bg \in B, spacing \in Sp :
        /\ Ran("text", <<s, x, y, c, bg, spacing>>, text(s, x, y, c, bg, spacing))
        /\ UNCHANGED <<_rotation, _font>>

\* color565(r, g, b) called by a script: no handle is involved
CallColor565(R, G, B) ==
    /\ call = NoCall
    /\ \E r \in R, g \in G, b \in B :
        /\ call' = [op |-> "color565", args |-> <<r, g, b>>, cs0 |-> cs, dc0 |-> dc]
        /\ ret' = color565(r, g, b)
        /\ log' = <<>>
        /\ err' = "none"
        /\ UNCHANGED <<variant, _w, _h, _rotation, _bgr, _invert, _font, cs, dc, rst, bl>>
        /\ UNCHANGED wifi_vars

\* _set_window(x0, y0, x1, y1) called on its own
CallSetWindow(X, Y) ==
    /\ call = NoCall
    /\ \E x0 \in X, x1 \in X, y0 \in Y, y1 \in Y :
          /\ Ran("_set_window", <<x0, y0, x1, y1>>, _set_window(x0, y0, x1, y1))
          /\ UNCHANGED <<_rotation, _font>>

\* a sprite buffer of n bytes: big-endian pixels, alternately the key colour
\* and another colour
KeyColor == 2 * 256 + 3
SpriteData(n) ==
    [i \in 1..n |->
        LET c == IF ((i - 1) \div 2) % 2 = 0 THEN KeyColor ELSE 4660
        IN IF i % 2 = 1 THEN Hi(c) ELSE Lo(c)]

\* blit_rgb565 with a buffer of w*h*2 + d bytes for the d of Extra
CallBlit(P, D, Extra, K) ==
    \E x \in P, y \in P, w \in D, h \in D, key \in K, d \in Extra :
        /\ w * h * 2 + d >= 0
        /\ Ran("blit_rgb565", <<x, y, w, h, SpriteData(w * h * 2 + d), key>>,
               blit_rgb565(x, y, w, h, SpriteData(w * h * 2 + d), key))
        /\ UNCHANGED <<_rotation, _font>>

----------------------------------------------------------------------------
(* Specifications *)

Colors == {4660}
Backgrounds == {None, 43981}
Keys == {None, KeyColor}
Strings == {<<"A">>, <<"B", "A">>, <<"A", "\n", "B">>}

\* positions from Margin outside the panel's corner to Margin past its far
\* edges, in either rotation
Pos == (0 - Margin)..(Max(PanelW, PanelH) - 1 + Margin)
\* three of them: outside before, inside, outside after
Few == {0 - Margin, 1, Max(PanelW, PanelH) - 1 + Margin}
Dim == {0, 1, Max(PanelW, PanelH)}

(* The whole drawing API on a small panel, from a handle whose chip-select *)
(* and command/data lines were passed as Pin objects at either level.      *)
Init == Construct(PanelW, PanelH, Variants, {0, 1}, {0, 1}, {None}, {None}, {TRUE}, {FALSE})

Next ==
    \/ CallInit
    \/ CallRotation(0..3)
    \/ CallSetFont
    \/ CallPixel(Pos, Colors)
    \/ CallFillRect(Few, Dim, Colors)
    \/ CallFill(Colors)
    \/ CallErase
    \/ CallHline(Few, Dim, Colors)
    \/ CallVline(Few, Dim, Colors)
    \/ CallRect(Few, Dim, Colors)
    \/ CallLine(Few, Colors)
    \/ CallCircle(Few, 0..MaxR, Colors)
    \/ CallFillCircle(Few, 0..MaxR, Colors)
    \/ CallText(Strings, Pos, Colors, Backgrounds, {1})
    \/ CallBlit(Few, 0..2, {-2, 0, 2}, Keys)
    \/ Return

Spec == Init /\ [][Next]_vars

(* fill_rect, fill and erase in every rotation: on the small panel every   *)
(* position and size around it, on a panel of more than one chunk the      *)
(* positions around its corner and the sizes around its own.               *)
BigPos == (0 - Margin)..Margin
BigDim == {1} \cup ((Max(BigW, BigH) - 1)..(Max(BigW, BigH) + Margin))
RectPos == IF _w = BigW THEN BigPos ELSE Pos
RectDim == IF _w = BigW THEN BigDim ELSE (0 - Margin)..(Max(PanelW, PanelH) + Margin)

InitFillRect ==
    \/ Construct(PanelW, PanelH, {"ILI9341"}, {1}, {0}, {None}, {None}, {TRUE}, {FALSE})
    \/ Construct(BigW, BigH, {"ILI9341"}, {1}, {0}, {None}, {None}, {TRUE}, {FALSE})

NextFillRect ==
    \/ CallFillRect(RectPos, RectDim, Colors)
    \/ CallFill(Colors)
    \/ CallErase
    \/ Return

SpecFillRect == InitFillRect /\ [][NextFillRect]_vars

(* pixel, line and circle on a small panel, every position around it, in   *)
(* every rotation.                                                         *)
InitRaster == Construct(PanelW, PanelH, {"ILI9341"}, {1}, {0}, {None}, {None}, {TRUE}, {FALSE})

NextRaster ==
    \/ CallPixel(Pos, Colors)
    \/ CallLine(Pos, Colors)
    \/ CallCircle(Pos, 0..MaxR, Colors)
    \/ Return

SpecRaster == InitRaster /\ [][NextRaster]_vars

(* circle and fill_circle for radii up to DiscR, centred anywhere from      *)
(* outside the panel to past its far edges, in every rotation.             *)
InitDisc == Construct(PanelW, PanelH, {"ILI9341"}, {1}, {0}, {None}, {None}, {TRUE}, {FALSE})

NextDisc ==
    \/ CallCircle(Pos, 0..DiscR, Colors)
    \/ CallFillCircle(Pos, 0..DiscR, Colors)
    \/ Return

SpecDisc == InitDisc /\ [][NextDisc]_vars

(* set_font and text: both fonts, strings with and without newlines, with  *)
(* and without a background colour, several spacings, every rotation.      *)
TextStrings == Strings \cup {<<"A", "B", "\n", "\n", "B", "A">>}
Spacings == 0..2

InitText == Construct(PanelW, PanelH, {"ILI9341"}, {1}, {0}, {None}, {None}, {TRUE}, {FALSE})

NextText ==
    \/ CallSetFont
    \/ CallText(TextStrings, Pos, Colors, Backgrounds, Spacings)
    \/ Return

SpecText == InitText /\ [][NextText]_vars

(* color565 with one channel running through 0..255 and the other two      *)
(* through values around the edges of their fields.                        *)
Channel == 0..255
Probe == {0, 5, 127, 252, 255}

InitColor == Construct(PanelW, PanelH, {"ILI9341"}, {1}, {0}, {None}, {None}, {TRUE}, {FALSE})

NextColor ==
    \/ CallColor565(Channel, Probe, Probe)
    \/ CallColor565(Probe, Channel, Probe)
    \/ CallColor565(Probe, Probe, Channel)
    \/ Return

SpecColor == InitColor /\ [][NextColor]_vars

(* _set_window with coordinates of one and of two bytes, at and beyond the *)
(* ends of the 16-bit range.                                               *)
Coords == {0 - 1, 0, 255, 256, 479, 65535, 65536}

InitWindow == Construct(PanelW, PanelH, {"ILI9341"}, {0, 1}, {0, 1}, {None}, {None}, {TRUE}, {FALSE})

NextWindow ==
    \/ CallSetWindow(Coords, Coords)
    \/ Return

SpecWindow == InitWindow /\ [][NextWindow]_vars

(* init and rotation for every construction of either variant.             *)
InitInit == Construct(PanelW, PanelH, Variants, {0, 1}, {0, 1}, {None, 0, 1}, {None, 0, 1},
                      BOOLEAN, BOOLEAN)

NextInit ==
    \/ CallInit
    \/ CallRotation((0 - Margin)..(3 + Margin))
    \/ Return

SpecInit == InitInit /\ [][NextInit]_vars

(* connect_wifi: timeouts of no, a few and (negative) less than no        *)
(* milliseconds, poll intervals of 0 to 2 ms, sleeps that overrun by up to *)
(* Jitter ms, the clock started far from and just before its wrap, every   *)
(* status the interface can report at every poll.                          *)
Jitter == 1
MaxPolls == 3
Timeouts == {0 - 1, 0, 2, 3}
PollMs == 0..2
Clock == {0, 5, TicksPeriod - 2, TicksPeriod - 1}
Statuses == {STAT_WRONG_PASSWORD, STAT_CONNECT_FAIL, STAT_IDLE, STAT_CONNECTING,
             STAT_GOT_IP}

InitWifi == Construct(PanelW, PanelH, {"ILI9341"}, {1}, {0}, {None}, {None}, {TRUE}, {FALSE})

NextWifi ==
    \/ CallConnectWifi(Timeouts, PollMs, BOOLEAN, {NoCountry, "CA"}, Clock)
    \/ WifiStep(Statuses, 0..Jitter, MaxPolls)
    \/ WifiReturn

SpecWifi == InitWifi /\ [][NextWifi]_vars

----------------------------------------------------------------------------
(* Reading a trace as the panel receives it *)

\* the bus traffic of a trace: line toggles and bytes written
IsBus(e) == e.k \in {"cs", "dc", "command", "payload"}
Bus(t) == SelectSeq(t, IsBus)

IsCmd(t, i, c) == t[i].k = "command" /\ t[i].data = <<c>>
CmdsOf(t, c) == {i \in 1..Len(t) : IsCmd(t, i, c)}

\* the data bytes written from effect j up to the next command
RECURSIVE BytesFrom(_, _)
BytesFrom(t, j) ==
    IF j > Len(t) THEN <<>>
    ELSE IF t[j].k = "command" THEN <<>>
    ELSE (IF t[j].k = "payload" THEN t[j].data ELSE <<>>) \o BytesFrom(t, j + 1)

\* the data bytes that follow the command at i
Param(t, i) == BytesFrom(t, i + 1)

\* the last command c before effect r, 0 if there is none
LastCmd(t, r, c) ==
    IF \E i \in 1..(r - 1) : IsCmd(t, i, c)
    THEN CHOOSE i \in 1..(r - 1) :
            IsCmd(t, i, c) /\ \A j \in (i + 1)..(r - 1) : ~IsCmd(t, j, c)
    ELSE 0

\* the RAMWR at r follows a column range and a row range of four bytes each
HasWindow(t, r) ==
    /\ LastCmd(t, r, 42) # 0
    /\ LastCmd(t, r, 43) # 0
    /\ Len(Param(t, LastCmd(t, r, 42))) = 4
    /\ Len(Param(t, LastCmd(t, r, 43))) = 4

\* the window <<x0, y0, x1, y1>> in force at the RAMWR at r, as sent
WireWindow(t, r) ==
    LET ca == Param(t, LastCmd(t, r, 42))
        ra == Param(t, LastCmd(t, r, 43))
    IN <<ca[1] * 256 + ca[2], ra[1] * 256 + ra[2],
         ca[3] * 256 + ca[4], ra[3] * 256 + ra[4]>>

WindowPixels(win) == (win[3] - win[1] + 1) * (win[4] - win[2] + 1)

\* the RAMWR commands of a trace
Ramwrs(t) == CmdsOf(t, 44)

\* the arguments of the pixel calls of a trace, in order
IsPixelCall(e) == e.k = "pixel"
PixelCalls(t) == SelectSeq(t, IsPixelCall)

----------------------------------------------------------------------------
(* C1: after fill_rect (any arguments, any rotation) the colour bytes that  *)
(* follow the window-set are exactly 2 per pixel of the window that was    *)
(* sent, and a rectangle with w <= 0 or h <= 0 or entirely outside the     *)
(* visible area causes no bus traffic at all.   Checked under SpecFillRect *)
FillRectOutside(x, y, w, h) ==
    w <= 0 \/ h <= 0 \/ x + w - 1 < 0 \/ y + h - 1 < 0 \/ x >= width \/ y >= height

C1_FillRectBytesMatchWindow ==
    call.op = "fill_rect" =>
        IF FillRectOutside(call.args[1], call.args[2], call.args[3], call.args[4])
        THEN Bus(log) = <<>>
        ELSE /\ Ramwrs(log) # {}
             /\ \A r \in Ramwrs(log) :
                   /\ HasWindow(log, r)
                   /\ Len(Param(log, r)) = 2 * WindowPixels(WireWindow(log, r))

\* a clipped fill_rect that needed more than one chunk
C1_Witness ==
    /\ call.op = "fill_rect"
    /\ call.args[1] < 0
    /\ err = "none"
    /\ \E r \in Ramwrs(log) : Len(Param(log, r)) > 2 * ChunkPixels

(* C5: for w > 0, h > 0 and a rectangle that meets the visible area, the   *)
(* one window fill_rect sends is the intersection of the rectangle with    *)
(* [0, width-1] x [0, height-1].                 Checked under SpecFillRect *)
C5_FillRectWindowIsIntersection ==
    (/\ call.op = "fill_rect"
     /\ ~FillRectOutside(call.args[1], call.args[2], call.args[3], call.args[4]))
    => /\ Cardinality(Ramwrs(log)) = 1
       /\ \A r \in Ramwrs(log) :
             /\ HasWindow(log, r)
             /\ WireWindow(log, r) =
                   <<Max(call.args[1], 0), Max(call.args[2], 0),
                     Min(call.args[1] + call.args[3] - 1, width - 1),
                     Min(call.args[2] + call.args[4] - 1, height - 1)>>

\* a rectangle cut on the left and at the bottom
C5_Witness ==
    /\ call.op = "fill_rect"
    /\ call.args[1] < 0
    /\ call.args[2] + call.args[4] > height
    /\ Cardinality(Ramwrs(log)) = 1

----------------------------------------------------------------------------
(* C8: pixel(x, y, color) outside 0 <= x < width, 0 <= y < height causes   *)
(* no bus traffic; inside, it sends the window (x, y, x, y) and then       *)
(* exactly two data bytes, the colour's high byte and then its low byte.   *)
(*                                                Checked under SpecRaster *)
\* the bytes written, in order, each with what it is
IsWrite(e) == e.k \in {"command", "payload"}
Written(t) == [i \in 1..Len(SelectSeq(t, IsWrite)) |->
                  <<SelectSeq(t, IsWrite)[i].k, SelectSeq(t, IsWrite)[i].data>>]

C8_PixelWindowAndWrite ==
    call.op = "pixel" =>
        LET x == call.args[1]
            y == call.args[2]
            c == call.args[3]
        IN IF x < 0 \/ y < 0 \/ x >= width \/ y >= height
           THEN Bus(log) = <<>>
           ELSE Written(log) =
                  << <<"command", <<42>>>>,
                     <<"payload", <<x \div 256, x % 256, x \div 256, x % 256>>>>,
                     <<"command", <<43>>>>,
                     <<"payload", <<y \div 256, y % 256, y \div 256, y % 256>>>>,
                     <<"command", <<44>>>>,
                     <<"payload", <<c \div 256, c % 256>>>> >>

\* a pixel in the far corner of the rotated panel
C8_Witness ==
    /\ call.op = "pixel"
    /\ _rotation = 1
    /\ call.args[1] = width - 1
    /\ call.args[2] = height - 1
    /\ Len(Written(log)) = 6

(* C9: line(x0, y0, x1, y1, c) makes max(|x1-x0|, |y1-y0|) + 1 calls of    *)
(* pixel, the first at (x0, y0), the last at (x1, y1), no coordinate       *)
(* twice, consecutive points at most 1 apart in each axis; a horizontal or *)
(* vertical line plots exactly the pixels between its end points.          *)
(*                                                Checked under SpecRaster *)
C9_LineIsBresenham ==
    call.op = "line" =>
        LET x0 == call.args[1]
            y0 == call.args[2]
            x1 == call.args[3]
            y1 == call.args[4]
            p == PixelCalls(log)
            n == Max(Abs(x1 - x0), Abs(y1 - y0)) + 1
        IN /\ Len(p) = n
           /\ p[1].data = <<x0, y0, call.args[5]>>
           /\ p[n].data = <<x1, y1, call.args[5]>>
           /\ \A i, j \in 1..n : i # j => p[i].data # p[j].data
           /\ \A i \in 1..(n - 1) :
                 /\ Abs(p[i + 1].data[1] - p[i].data[1]) <= 1
                 /\ Abs(p[i + 1].data[2] - p[i].data[2]) <= 1
           /\ y0 = y1 =>
                 {<<p[i].data[1], p[i].data[2]>> : i \in 1..n}
                    = {<<x, y0>> : x \in Min(x0, x1)..Max(x0, x1)}
           /\ x0 = x1 =>
                 {<<p[i].data[1], p[i].data[2]>> : i \in 1..n}
                    = {<<x0, y>> : y \in Min(y0, y1)..Max(y0, y1)}

\* a slanted line drawn right to left across the panel and out of it
C9_Witness ==
    /\ call.op = "line"
    /\ call.args[1] > call.args[3] + 2
    /\ call.args[2] < call.args[4]
    /\ call.args[3] < 0
    /\ Len(PixelCalls(log)) >= 4
    /\ Ramwrs(log) # {}

(* C10 as claimed: circle(x0, y0, 0, c) with the centre inside the panel   *)
(* issues exactly one single-pixel window-and-write, at (x0, y0).          *)
C10_Claimed_OneWindowAndWrite ==
    (/\ call.op = "circle"
     /\ call.args[3] = 0
     /\ call.args[1] \in 0..(width - 1)
     /\ call.args[2] \in 0..(height - 1))
    => /\ Cardinality(Ramwrs(log)) = 1
       /\ \A r \in Ramwrs(log) :
             WireWindow(log, r) = <<call.args[1], call.args[2], call.args[1], call.args[2]>>

(* C10 as amended: circle(x0, y0, 0, c) plots the one coordinate (x0, y0)  *)
(* and no other: its loop runs once and calls pixel eight times, each call *)
(* at (x0, y0); with the centre inside the panel that is eight             *)
(* single-pixel window-and-writes at (x0, y0), and with the centre outside *)
(* there is no bus traffic.                       Checked under SpecRaster *)
C10_CircleRadius0OneCoordinate ==
    (call.op = "circle" /\ call.args[3] = 0)
    => LET x0 == call.args[1]
           y0 == call.args[2]
           p == PixelCalls(log)
       IN /\ Len(p) = 8
          /\ \A i \in 1..Len(p) : p[i].data = <<x0, y0, call.args[4]>>
          /\ IF x0 \in 0..(width - 1) /\ y0 \in 0..(height - 1)
             THEN /\ Cardinality(Ramwrs(log)) = 8
                  /\ \A r \in Ramwrs(log) :
                        /\ WireWindow(log, r) = <<x0, y0, x0, y0>>
                        /\ Len(Param(log, r)) = 2
             ELSE Bus(log) = <<>>

\* a radius-0 circle whose centre is inside the panel
C10_Witness ==
    /\ call.op = "circle"
    /\ call.args[3] = 0
    /\ call.args[1] \in 0..(width - 1)
    /\ call.args[2] \in 0..(height - 1)
    /\ Ramwrs(log) # {}

----------------------------------------------------------------------------
(* C4: init() of either variant emits, once each and in this order: the    *)
(* reset pulse (only with a reset line), software reset 0x01, on ST7796S   *)
(* only the unlock writes 0xF0/0xC3 and 0xF0/0x96, sleep-out 0x11, pixel   *)
(* format 0x3A with data 0x55, orientation 0x36 with one data byte,        *)
(* inversion on 0x21 or off 0x20 as configured, display-on 0x29, and last  *)
(* the backlight driven high (only with a backlight line); nothing else is *)
(* written, so no pixel data.                        Checked under SpecInit *)
IsStep(e) == e.k \in {"rst", "bl", "command", "payload"}
StepOf(e) == IF e.k \in {"rst", "bl"} THEN <<e.k, e.v>> ELSE <<e.k, e.data>>
Steps(t) == [i \in 1..Len(SelectSeq(t, IsStep)) |-> StepOf(SelectSeq(t, IsStep)[i])]

InitSteps(madctl) ==
    (IF rst # None THEN << <<"rst", 1>>, <<"rst", 0>>, <<"rst", 1>> >> ELSE <<>>)
    \o << <<"command", <<1>>>> >>
    \o (IF variant = "ST7796S"
        THEN << <<"command", <<240>>>>, <<"payload", <<195>>>>,
                <<"command", <<240>>>>, <<"payload", <<150>>>> >>
        ELSE <<>>)
    \o << <<"command", <<17>>>>,
          <<"command", <<58>>>>, <<"payload", <<85>>>>,
          <<"command", <<54>>>>, <<"payload", <<madctl>>>>,
          <<"command", <<IF _invert THEN 33 ELSE 32>>>>,
          <<"command", <<41>>>> >>
    \o (IF bl # None THEN << <<"bl", 1>> >> ELSE <<>>)

C4_InitOrder ==
    call.op = "init" =>
        /\ err = "none"
        /\ \E madctl \in 0..255 : Steps(log) = InitSteps(madctl)

\* ST7796S with a reset line, a backlight line and inversion configured
C4_Witness ==
    /\ call.op = "init"
    /\ variant = "ST7796S"
    /\ _invert
    /\ rst = 1
    /\ bl = 1
    /\ Len(Steps(log)) = 16

----------------------------------------------------------------------------
(* C2: in pixel, in text with a background colour, and in blit_rgb565      *)
(* without a colour key given a buffer of w*h*2 bytes, every RAMWR follows  *)
(* a window-set of its own and is followed, before any other command, by   *)
(* exactly 2 bytes per pixel of that window, high byte first; and no data  *)
(* is written except after a column range, a row range or a RAMWR.         *)
(*                                                     Checked under Spec  *)
WritesPixelData ==
    \/ call.op = "pixel"
    \/ call.op = "text" /\ call.args[5] # None
    \/ /\ call.op = "blit_rgb565"
       /\ call.args[6] = None
       /\ Len(call.args[5]) = call.args[3] * call.args[4] * 2

\* the window-set of the RAMWR at r was sent after every earlier RAMWR
OwnWindow(t, r) ==
    /\ HasWindow(t, r)
    /\ \A q \in Ramwrs(t) : q < r => (q < LastCmd(t, r, 42) /\ q < LastCmd(t, r, 43))

\* the command that the data written at i belongs to, 0 if there is none
CmdBefore(t, i) ==
    IF \E j \in 1..(i - 1) : t[j].k = "command"
    THEN CHOOSE j \in 1..(i - 1) :
            t[j].k = "command" /\ \A m \in (j + 1)..(i - 1) : t[m].k # "command"
    ELSE 0

\* the pixels of a payload are each one of the colours cols, high byte first
PixelsIn(buf, cols) ==
    /\ Len(buf) % 2 = 0
    /\ \A n \in 1..(Len(buf) \div 2) :
          \E c \in cols : buf[2 * n - 1] = (c \div 256) % 256 /\ buf[2 * n] = c % 256

C2_WindowMatchesBytes ==
    WritesPixelData =>
        /\ \A r \in Ramwrs(log) :
              /\ OwnWindow(log, r)
              /\ Len(Param(log, r)) = 2 * WindowPixels(WireWindow(log, r))
              /\ call.op = "pixel" => PixelsIn(Param(log, r), {call.args[3]})
              /\ call.op = "text" => PixelsIn(Param(log, r), {call.args[4], call.args[5]})
              /\ call.op = "blit_rgb565" => Param(log, r) = call.args[5]
        /\ \A i \in 1..Len(log) :
              log[i].k = "payload" =>
                 /\ CmdBefore(log, i) # 0
                 /\ log[CmdBefore(log, i)].data[1] \in {42, 43, 44}
                 /\ log[CmdBefore(log, i)].data[1] = 44 => OwnWindow(log, CmdBefore(log, i))

\* two opaque glyph tiles drawn by one call of text
C2_Witness ==
    /\ call.op = "text"
    /\ call.args[5] # None
    /\ err = "none"
    /\ Cardinality(Ramwrs(log)) >= 2
    /\ \E r \in Ramwrs(log) : Len(Param(log, r)) > 8

----------------------------------------------------------------------------
(* C3: chip-select and command/data around every byte written.             *)

\* the level of line k just after effect i of t, from level v0
RECURSIVE LevelAt(_, _, _, _)
LevelAt(t, i, k, v0) ==
    IF i = 0 THEN v0
    ELSE IF t[i].k = k THEN t[i].v
    ELSE LevelAt(t, i - 1, k, v0)

\* every byte is written with chip-select low and command/data at the level
\* of its kind
WritesFramed ==
    \A i \in 1..Len(log) :
        /\ log[i].k = "command" =>
              /\ LevelAt(log, i - 1, "cs", call.cs0) = 0
              /\ LevelAt(log, i - 1, "dc", call.dc0) = 0
        /\ log[i].k = "payload" =>
              /\ LevelAt(log, i - 1, "cs", call.cs0) = 0
              /\ LevelAt(log, i - 1, "dc", call.dc0) = 1

Wrote == \E i \in 1..Len(log) : log[i].k \in {"command", "payload"}

(* C3 as claimed: every byte is written with chip-select low and            *)
(* command/data low for a command, high for data, and chip-select is high  *)
(* whenever a public operation returns.                                    *)
C3_Claimed_CSHighOnEveryReturn ==
    call # NoCall => (WritesFramed /\ cs = 1)

(* C3 as amended: every byte is written with chip-select low and            *)
(* command/data low for a command, high for data; every transaction is     *)
(* closed, so chip-select is high when an operation that wrote to the bus  *)
(* returns; an operation that writes nothing does not touch chip-select    *)
(* and leaves it at the level it found (the constructor does not drive     *)
(* it).                                                Checked under Spec  *)
C3_BusFraming ==
    call # NoCall =>
        /\ WritesFramed
        /\ Wrote => cs = 1
        /\ ~Wrote => (cs = call.cs0 /\ Bus(log) = <<>>)

\* a fill_rect that found chip-select low and command/data high
C3_Witness ==
    /\ call.op = "fill_rect"
    /\ call.cs0 = 0
    /\ call.dc0 = 1
    /\ \E r \in Ramwrs(log) : Len(Param(log, r)) >= 4
    /\ cs = 1

----------------------------------------------------------------------------
(* C6 as claimed: no drawing call raises for any integer position and size *)
(* (blit_rgb565 given a buffer of w*h*2 bytes), and every window it sets   *)
(* lies inside the panel: the call does nothing or draws the visible part. *)
DrawingOps == {"pixel", "hline", "vline", "rect", "fill_rect", "line", "circle",
               "fill_circle", "text", "blit_rgb565"}

IsSetWindow(e) == e.k = "set_window"

C6_Claimed_NeverRaisesAlwaysClips ==
    (/\ call.op \in DrawingOps
     /\ call.op = "blit_rgb565" => Len(call.args[5]) = call.args[3] * call.args[4] * 2)
    => /\ err = "none"
       /\ \A i \in 1..Len(log) :
             IsSetWindow(log[i]) =>
                /\ 0 <= log[i].data[1] /\ log[i].data[1] <= log[i].data[3]
                /\ log[i].data[3] < width
                /\ 0 <= log[i].data[2] /\ log[i].data[2] <= log[i].data[4]
                /\ log[i].data[4] < height

(* C7 as claimed: blit_rgb565 with w > 0, h > 0 and a buffer that is not   *)
(* w*h*2 bytes long is rejected with an error before anything is sent     *)
(* (stated here for a sprite placed inside the panel).                     *)
C7_Claimed_WrongLengthRejected ==
    (/\ call.op = "blit_rgb565"
     /\ call.args[3] > 0
     /\ call.args[4] > 0
     /\ Len(call.args[5]) # call.args[3] * call.args[4] * 2
     /\ 0 <= call.args[1] /\ call.args[1] + call.args[3] <= width
     /\ 0 <= call.args[2] /\ call.args[2] + call.args[4] <= height)
    => (err # "none" /\ Bus(log) = <<>>)

----------------------------------------------------------------------------
(* C11 as claimed: fill_circle(x0, y0, 0, c) sends no window-set and       *)
(* writes no pixel data.                                                   *)
C11_Claimed_Radius0DrawsNothing ==
    (call.op = "fill_circle" /\ call.args[3] = 0) => Bus(log) = <<>>

----------------------------------------------------------------------------
(* C12: for r >= 1, fill_circle ends without error and the pixels of the   *)
(* spans it requests form a solid disc: the rows covered are exactly       *)
(* y0-r .. y0+r, each row's coverage is one contiguous span symmetric      *)
(* about x0 and within x0-r .. x0+r, and every pixel circle() plots for    *)
(* the same centre and radius is covered.            Checked under SpecDisc *)
IsFillRectCall(e) == e.k = "fill_rect"
FillRectCalls(t) == SelectSeq(t, IsFillRectCall)

\* the pixels of the rectangles requested from fill_rect, before clipping
Requested(t) ==
    UNION { {<<px, py>> : px \in f[1]..(f[1] + f[3] - 1), py \in f[2]..(f[2] + f[4] - 1)} :
            f \in {FillRectCalls(t)[i].data : i \in 1..Len(FillRectCalls(t))} }

RowOf(pts, y) == {p[1] : p \in {q \in pts : q[2] = y}}

C12_FillCircleSolidDisc ==
    (call.op = "fill_circle" /\ call.args[3] >= 1) =>
        LET x0 == call.args[1]
            y0 == call.args[2]
            r == call.args[3]
            pts == Requested(log)
            ring == PixelCalls(circle(x0, y0, r, call.args[4]))
        IN /\ err = "none"
           /\ {p[2] : p \in pts} = (y0 - r)..(y0 + r)
           /\ \A y \in (y0 - r)..(y0 + r) :
                 LET row == RowOf(pts, y)
                 IN /\ row # {}
                    /\ row \subseteq (x0 - r)..(x0 + r)
                    /\ \A a \in row, b \in row : a..b \subseteq row
                    /\ \A a \in row : (2 * x0 - a) \in row
           /\ \A i \in 1..Len(ring) : <<ring[i].data[1], ring[i].data[2]>> \in pts

\* a disc of radius 3 or more around a centre inside the panel
C12_Witness ==
    /\ call.op = "fill_circle"
    /\ call.args[3] >= 3
    /\ call.args[1] \in 0..(width - 1)
    /\ call.args[2] \in 0..(height - 1)
    /\ Len(FillRectCalls(log)) >= 8
    /\ Ramwrs(log) # {}

----------------------------------------------------------------------------
(* C13: in text(s, x, y, color, bg, spacing) the glyph of each character   *)
(* other than a newline is drawn at x plus the sum of (declared width +    *)
(* spacing) of the characters before it since the last newline, and at     *)
(* y + (font height + 2) times the number of newlines before it; a newline *)
(* draws nothing.  With a background colour the glyph origins are the      *)
(* origins of the windows set (those set before an exception, if one is    *)
(* raised); without one they are the origins of the pixels plotted.        *)
(*                                                 Checked under SpecText  *)

\* the index of the last newline of s before position i, 0 if there is none
LineStart(s, i) ==
    IF \E j \in 1..(i - 1) : s[j] = "\n"
    THEN CHOOSE j \in 1..(i - 1) : s[j] = "\n" /\ \A m \in (j + 1)..(i - 1) : s[m] # "\n"
    ELSE 0

RECURSIVE Advance(_, _, _, _)
\* the sum of (declared width + spacing) of the characters a..b of s
Advance(s, a, b, spacing) ==
    IF a > b THEN 0
    ELSE GlyphWidth(_font, s[a]) + spacing + Advance(s, a + 1, b, spacing)

\* where the glyph of character i of s belongs
OriginX(s, i, x, spacing) == x + Advance(s, LineStart(s, i) + 1, i - 1, spacing)
OriginY(s, i, y) ==
    y + (FontHeight(_font) + 2) * Cardinality({j \in 1..(i - 1) : s[j] = "\n"})

\* the characters of s that have a glyph, in order
Glyphs(s) == SelectSeq([i \in 1..Len(s) |-> i], LAMBDA i : s[i] # "\n")

SetWindowCalls(t) == SelectSeq(t, IsSetWindow)

C13_TextLayout ==
    call.op = "text" =>
        LET s == call.args[1]
            x == call.args[2]
            y == call.args[3]
            bg == call.args[5]
            spacing == call.args[6]
            g == Glyphs(s)
            win == SetWindowCalls(log)
            on == {<<n, c, r>> \in (1..Len(g)) \X (0..2) \X (0..9) :
                      /\ c < GlyphWidth(_font, s[g[n]])
                      /\ r < FontHeight(_font)
                      /\ GlyphOn(GlyphData(_font, s[g[n]]), (FontHeight(_font) + 7) \div 8, c, r)}
        IN IF bg # None
           THEN /\ Len(win) <= Len(g)
                /\ err = "none" => Len(win) = Len(g)
                /\ \A n \in 1..Len(win) :
                      /\ win[n].data[1] = OriginX(s, g[n], x, spacing)
                      /\ win[n].data[2] = OriginY(s, g[n], y)
                /\ PixelCalls(log) = <<>>
           ELSE /\ err = "none"
                /\ Len(PixelCalls(log)) = Cardinality(on)
                /\ {PixelCalls(log)[k].data : k \in 1..Len(PixelCalls(log))}
                      = {<<OriginX(s, g[p[1]], x, spacing) + p[2],
                           OriginY(s, g[p[1]], y) + p[3], call.args[4]>> : p \in on}

\* "A", newline, "B" on a background, after which the window of "B" starts
\* at the call's own x, one line down
C13_Witness ==
    /\ call.op = "text"
    /\ call.args[1] = <<"A", "\n", "B">>
    /\ call.args[5] # None
    /\ call.args[6] = 2
    /\ err = "none"
    /\ Len(SetWindowCalls(log)) = 2
    /\ SetWindowCalls(log)[2].data[1] = call.args[2]
    /\ SetWindowCalls(log)[2].data[2] = call.args[3] + FontHeight(_font) + 2

----------------------------------------------------------------------------
(* C14: blit_rgb565 with a colour key and a buffer of exactly w*h*2 bytes  *)
(* goes through the source pixels row by row and calls                     *)
(* pixel(x + xx, y + yy, c) for exactly those whose big-endian value c     *)
(* differs from the key, in that order and with c as colour; everything    *)
(* written is the single-pixel write of one of those calls, so nothing is  *)
(* written for a source pixel equal to the key.        Checked under Spec  *)
C14_BlitKeySkipsKeyPixels ==
    (/\ call.op = "blit_rgb565"
     /\ call.args[6] # None
     /\ Len(call.args[5]) = call.args[3] * call.args[4] * 2)
    => LET x == call.args[1]
           y == call.args[2]
           w == call.args[3]
           h == call.args[4]
           data == call.args[5]
           src == [k \in 1..(w * h) |-> data[2 * k - 1] * 256 + data[2 * k]]
           keep == SelectSeq([k \in 1..(w * h) |-> k], LAMBDA k : src[k] # call.args[6])
           p == PixelCalls(log)
           seen == {n \in 1..Len(p) : /\ p[n].data[1] \in 0..(width - 1)
                                      /\ p[n].data[2] \in 0..(height - 1)}
       IN /\ err = "none"
          /\ Len(p) = Len(keep)
          /\ \A n \in 1..Len(p) :
                p[n].data = <<x + ((keep[n] - 1) % w), y + ((keep[n] - 1) \div w), src[keep[n]]>>
          /\ Cardinality(Ramwrs(log)) = Cardinality(seen)
          /\ Len(SetWindowCalls(log)) = Cardinality(seen)
          /\ \A r \in Ramwrs(log) :
                /\ Len(Param(log, r)) = 2
                /\ \E n \in seen :
                      /\ WireWindow(log, r) = <<p[n].data[1], p[n].data[2],
                                                p[n].data[1], p[n].data[2]>>
                      /\ Param(log, r) = <<p[n].data[3] \div 256, p[n].data[3] % 256>>

\* a 2 x 2 sprite with two key pixels, the other two drawn on the panel
C14_Witness ==
    /\ call.op = "blit_rgb565"
    /\ call.args[6] = KeyColor
    /\ call.args[3] = 2
    /\ call.args[4] = 2
    /\ Len(call.args[5]) = 8
    /\ Len(PixelCalls(log)) = 2
    /\ Cardinality(Ramwrs(log)) >= 1

----------------------------------------------------------------------------
(* The glyph bit for (col, row): bit (row mod 8) of glyph byte             *)
(* col * ceil(height / 8) + (row div 8), off when that byte is past the    *)
(* end of the glyph data.                                                  *)
BitOn(glyph, font_height, col, row) ==
    LET idx == col * ((font_height + 7) \div 8) + (row \div 8)
    IN /\ idx < Len(glyph)
       /\ (glyph[idx + 1] \div (2 ^ (row % 8))) % 2 = 1

\* the RAMWR commands of a trace, in order
RamwrSeq(t) == SelectSeq([i \in 1..Len(t) |-> i], LAMBDA i : IsCmd(t, i, 44))

\* the data writes that belong to the command at r
WritesAfter(t, r) == {i \in (r + 1)..Len(t) : t[i].k = "payload" /\ CmdBefore(t, i) = r}

(* C15: with a background colour, each character is rendered by exactly    *)
(* one window-set followed by one data write of a tile of                  *)
(* (glyph width + 1) x (font height + 1) pixels in row-major order, whose  *)
(* pixel (col, row) is the foreground colour exactly when col < glyph      *)
(* width, row < font height and the glyph bit for (col, row) is on, and    *)
(* the background colour otherwise (so the extra column and row are        *)
(* background).  A character whose window is rejected (see C6) ends the   *)
(* call; the tiles written before it are as described.                     *)
(*                                                 Checked under SpecText  *)
C15_OpaqueTile ==
    (call.op = "text" /\ call.args[5] # None) =>
        LET s == call.args[1]
            fg == call.args[4]
            bg == call.args[5]
            g == Glyphs(s)
            win == SetWindowCalls(log)
            rw == RamwrSeq(log)
            fh == FontHeight(_font)
        IN /\ Len(rw) <= Len(win) /\ Len(win) <= Len(g)
           /\ err = "none" => Len(rw) = Len(g)
           /\ \A n \in 1..Len(rw) :
                 LET gw == GlyphWidth(_font, s[g[n]])
                     glyph == GlyphData(_font, s[g[n]])
                     ox == OriginX(s, g[n], call.args[2], call.args[6])
                     oy == OriginY(s, g[n], call.args[3])
                     tile == Param(log, rw[n])
                     Colour(q) == IF /\ q % (gw + 1) < gw
                                     /\ q \div (gw + 1) < fh
                                     /\ BitOn(glyph, fh, q % (gw + 1), q \div (gw + 1))
                                  THEN fg ELSE bg
                 IN /\ OwnWindow(log, rw[n])
                    /\ WireWindow(log, rw[n]) = <<ox, oy, ox + gw, oy + fh>>
                    /\ Cardinality(WritesAfter(log, rw[n])) = 1
                    /\ Len(tile) = (gw + 1) * (fh + 1) * 2
                    /\ \A q \in 0..((gw + 1) * (fh + 1) - 1) :
                          /\ tile[2 * q + 1] = (Colour(q) \div 256) % 256
                          /\ tile[2 * q + 2] = Colour(q) % 256

\* the tall "A" on a background: two columns, nine rows, bits in both bytes
\* of a column
C15_Witness ==
    /\ call.op = "text"
    /\ call.args[5] # None
    /\ _font = "tall"
    /\ call.args[1] = <<"A">>
    /\ err = "none"
    /\ Len(RamwrSeq(log)) = 1
    /\ Len(Param(log, RamwrSeq(log)[1])) = 60

(* C16: with no background colour, drawing a character calls               *)
(* pixel(x + c, y + r, color) for exactly those (c, r), 0 <= c < glyph     *)
(* width, 0 <= r < font height, whose glyph bit is on (column by column,   *)
(* top to bottom); a glyph byte past the end of the data is bit-off and    *)
(* raises nothing, and all that is written are the single-pixel writes of  *)
(* those calls.                                    Checked under SpecText  *)
MaxGlyphW == GlyphWidth("tall", "A")
MaxGlyphH == FontHeight("tall")

C16_TransparentGlyph ==
    (call.op = "text" /\ call.args[5] = None) =>
        LET s == call.args[1]
            g == Glyphs(s)
            fh == FontHeight(_font)
            Ch(k) == g[((k - 1) \div (MaxGlyphW * MaxGlyphH)) + 1]
            Col(k) == ((k - 1) \div MaxGlyphH) % MaxGlyphW
            Row(k) == (k - 1) % MaxGlyphH
            dots == SelectSeq([k \in 1..(Len(g) * MaxGlyphW * MaxGlyphH) |-> k],
                              LAMBDA k : /\ Col(k) < GlyphWidth(_font, s[Ch(k)])
                                         /\ Row(k) < fh
                                         /\ BitOn(GlyphData(_font, s[Ch(k)]), fh, Col(k), Row(k)))
            p == PixelCalls(log)
            seen == {n \in 1..Len(p) : /\ p[n].data[1] \in 0..(width - 1)
                                       /\ p[n].data[2] \in 0..(height - 1)}
        IN /\ err = "none"
           /\ Len(p) = Len(dots)
           /\ \A n \in 1..Len(p) :
                 p[n].data = <<OriginX(s, Ch(dots[n]), call.args[2], call.args[6]) + Col(dots[n]),
                               OriginY(s, Ch(dots[n]), call.args[3]) + Row(dots[n]),
                               call.args[4]>>
           /\ FillRectCalls(log) = <<>>
           /\ Cardinality(Ramwrs(log)) = Cardinality(seen)
           /\ Len(SetWindowCalls(log)) = Cardinality(seen)
           /\ \A r \in Ramwrs(log) :
                 /\ Len(Param(log, r)) = 2
                 /\ \E n \in seen : WireWindow(log, r) = <<p[n].data[1], p[n].data[2],
                                                           p[n].data[1], p[n].data[2]>>

\* the tall "A", whose data stop before the second byte of its last column:
\* rows 0, 7 and 8 of column 0 and rows 0..7 of column 1 are plotted
C16_Witness ==
    /\ call.op = "text"
    /\ call.args[5] = None
    /\ _font = "tall"
    /\ call.args[1] = <<"A">>
    /\ Len(GlyphData(_font, "A")) < GlyphWidth(_font, "A") * 2
    /\ Len(PixelCalls(log)) = 11
    /\ Ramwrs(log) # {}

----------------------------------------------------------------------------
(* C17: after construction and after any calls, width and height are the   *)
(* physical width and height when the stored rotation is 0 or 2 and are    *)
(* swapped when it is 1 or 3; the physical size never changes, and no call *)
(* other than rotation (no drawing operation, no set_font, no init)        *)
(* changes what width and height return.               Checked under Spec  *)
C17_WidthHeightFollowRotation ==
    /\ [](/\ _rotation \in {0, 2} => (width = _w /\ height = _h)
          /\ _rotation \in {1, 3} => (width = _h /\ height = _w)
          /\ _rotation \in 0..3)
    /\ [][_w' = _w /\ _h' = _h]_vars
    /\ [][call'.op # "rotation" => (width' = width /\ height' = height)]_vars

\* a fill of the whole screen in rotation 3, on a panel that is not square
C17_Witness ==
    /\ call.op = "fill"
    /\ _rotation = 3
    /\ _w # _h
    /\ width = _h
    /\ height = _w
    /\ \E r \in Ramwrs(log) : WireWindow(log, r) = <<0, 0, _h - 1, _w - 1>>

----------------------------------------------------------------------------
(* C18: rotation(r) for any integer r stores r mod 4, so the stored        *)
(* rotation is always in 0..3, and sends exactly one command 0x36 with one *)
(* data byte: 0x40, 0x20, 0x80, 0xE0 for the stored rotation 0, 1, 2, 3,   *)
(* plus 0x08 exactly when BGR order is configured.    Checked under SpecInit *)
C18_RotationStoresMod4 ==
    /\ _rotation \in 0..3
    /\ call.op = "rotation" =>
          /\ \E q \in (0 - 1 - Margin)..(1 + Margin) : call.args[1] = 4 * q + _rotation
          /\ err = "none"
          /\ Written(log) =
                << <<"command", <<54>>>>,
                   <<"payload", <<(CASE _rotation = 0 -> 64
                                     [] _rotation = 1 -> 32
                                     [] _rotation = 2 -> 128
                                     [] _rotation = 3 -> 224)
                                  + (IF _bgr THEN 8 ELSE 0)>>>> >>

\* rotation(-1) on a handle with BGR order: 3 is stored and 0xE8 is sent
C18_Witness ==
    /\ call.op = "rotation"
    /\ call.args[1] = 0 - 1
    /\ _rotation = 3
    /\ _bgr
    /\ Written(log) = << <<"command", <<54>>>>, <<"payload", <<232>>>> >>

----------------------------------------------------------------------------
(* C19: for r, g, b in 0..255, color565(r, g, b) is a value in 0..65535    *)
(* determined by its arguments, whose bits 15-11 are r >> 3, bits 10-5 are *)
(* g >> 2 and bits 4-0 are b >> 3; expanding the fields back to 8 bits     *)
(* (<< 3, << 2, << 3) gives each channel back from below with an error of  *)
(* less than 8 for red and blue and less than 4 for green.                 *)
(*                                                Checked under SpecColor  *)
C19_Color565Fields ==
    call.op = "color565" =>
        LET r == call.args[1]
            g == call.args[2]
            b == call.args[3]
            red == ret \div 2048
            green == (ret \div 32) % 64
            blue == ret % 32
        IN /\ ret \in 0..65535
           /\ ret = (r \div 8) * 2048 + (g \div 4) * 32 + (b \div 8)
           /\ red = r \div 8 /\ green = g \div 4 /\ blue = b \div 8
           /\ r - red * 8 \in 0..7
           /\ g - green * 4 \in 0..3
           /\ b - blue * 8 \in 0..7

\* a colour whose three channels all lose low bits
C19_Witness ==
    /\ call.op = "color565"
    /\ call.args = <<255, 127, 5>>
    /\ ret = 31 * 2048 + 31 * 32

----------------------------------------------------------------------------
(* C20: _set_window(x0, y0, x1, y1) with offset-adjusted coordinates in    *)
(* 0..65535 writes exactly, in order: command 0x2A and the four bytes      *)
(* x0+xoff high, low, x1+xoff high, low; command 0x2B and the four bytes   *)
(* y0+yoff high, low, y1+yoff high, low; command 0x2C with no data; apart  *)
(* from the toggling of chip-select and command/data it does nothing else, *)
(* and it leaves chip-select high after the 0x2C, the window in force      *)
(* being columns x0..x1 and rows y0..y1, (x1-x0+1) x (y1-y0+1) pixels.     *)
(*                                               Checked under SpecWindow  *)
C20_SetWindowBytes ==
    (/\ call.op = "_set_window"
     /\ \A n \in {1, 3} : call.args[n] + _xoff \in 0..65535
     /\ \A n \in {2, 4} : call.args[n] + _yoff \in 0..65535)
    => LET x0 == call.args[1] + _xoff
           y0 == call.args[2] + _yoff
           x1 == call.args[3] + _xoff
           y1 == call.args[4] + _yoff
       IN /\ err = "none"
          /\ Written(log) =
                << <<"command", <<42>>>>,
                   <<"payload", <<x0 \div 256, x0 % 256, x1 \div 256, x1 % 256>>>>,
                   <<"command", <<43>>>>,
                   <<"payload", <<y0 \div 256, y0 % 256, y1 \div 256, y1 % 256>>>>,
                   <<"command", <<44>>>> >>
          /\ \A i \in 1..Len(log) :
                log[i].k \in {"set_window", "cs", "dc", "command", "payload"}
          /\ log[Len(log)] = [k |-> "cs", v |-> 1, data |-> <<>>]
          /\ cs = 1
          /\ \A r \in Ramwrs(log) : WireWindow(log, r) = <<x0, y0, x1, y1>>

\* a window whose ends need both bytes
C20_Witness ==
    /\ call.op = "_set_window"
    /\ call.args = <<256, 255, 479, 65535>>
    /\ err = "none"
    /\ Cardinality(Ramwrs(log)) = 1

----------------------------------------------------------------------------
(* C21 as claimed: every address window a drawing call sends to the panel  *)
(* (the column and row ranges in force at each RAMWR, as the bytes on the  *)
(* bus give them) lies inside the visible area of the current rotation:    *)
(* 0 <= x0 <= x1 < width and 0 <= y0 <= y1 < height, the opaque glyph      *)
(* tiles of text and the keyless blit_rgb565 included.                     *)
C21_Claimed_WindowsInsideVisibleArea ==
    call.op \in DrawingOps =>
        \A r \in Ramwrs(log) :
            HasWindow(log, r) =>
                LET win == WireWindow(log, r)
                IN /\ 0 <= win[1] /\ win[1] <= win[3] /\ win[3] < width
                   /\ 0 <= win[2] /\ win[2] <= win[4] /\ win[4] < height

----------------------------------------------------------------------------
(* C22: whatever the WLAN interface reports, connect_wifi ends in one of   *)
(* three ways.  It returns only when its last look at the interface found  *)
(* it connected (isconnected() true or status GOT_IP), at the first such   *)
(* look, and then it never called disconnect().  It raises OSError in the  *)
(* very poll whose status is negative (the interface not calling itself    *)
(* connected in that poll), having called disconnect() last.  It raises    *)
(* TimeoutError only when timeout_ms or more have gone by without a look   *)
(* that found it connected and without a negative status, having called    *)
(* disconnect() last.  While it runs it has seen neither.  Every poll of   *)
(* the loop is made before the deadline (the two reads of status() that    *)
(* the verbose timeout message prints are not polls: nothing depends on    *)
(* them).                                          Checked under SpecWifi  *)
\* the call at i found the interface connected
SawConnected(i) ==
    \/ wlan[i].k = "isconnected" /\ wlan[i].v = TRUE
    \/ wlan[i].k = "status" /\ wlan[i].v = STAT_GOT_IP

\* the poll at i reported a negative status
PolledNegative(i) == wlan[i].k = "status" /\ wlan[i].v < 0

\* the calls of disconnect()
Disconnects == {i \in 1..Len(wlan) : wlan[i].k = "disconnect"}

=============================================================================
